---------------------------- MODULE Spec2Model ----------------------------
(***************************************************************************)
(* Model of docs/12.6.1/searchindex.js: one statement,                     *)
(*     Search.setIndex({ ...object literal... })                           *)
(* which hands a constant search index to the documentation search widget. *)
(*                                                                         *)
(* The object literal is transcribed field by field.  JSON values whose    *)
(* type varies in the literal keep their type as a tag (JNull, JNum, JStr, *)
(* JArr): a value of `terms' is a number or an array of numbers, an anchor *)
(* in `alltitles' is null or a string.  Strings that are compared          *)
(* character by character (docnames, filenames, anchors) are sequences of  *)
(* one-character strings; keys and titles are plain strings.  Document     *)
(* numbers are 0-based as in the source; TLA+ sequences are 1-based, so    *)
(* document d is element d + 1 of a list.                                  *)
(*                                                                         *)
(* The widget that receives the index is not part of the repository.  Its  *)
(* two read-only lookups (by word, by section title) are modelled from the *)
(* consumption contract the specification describes, to observe what a     *)
(* document number of the index resolves to.                               *)
(***************************************************************************)
EXTENDS Integers, Sequences, FiniteSets, TLC

VARIABLES pc, index, query, hits

vars == <<pc, index, query, hits>>

-----------------------------------------------------------------------------
(* JSON values of the literal                                              *)

JNull == [t |-> "null"]

JUndefined == [t |-> "undefined"]

JNum(n) == [t |-> "num", n |-> n]

JStr(s) == [t |-> "str", s |-> s]

JArr(a) == [t |-> "arr", a |-> a]

JObj(o) == [t |-> "obj", o |-> o]

-----------------------------------------------------------------------------
(* The fields of the object literal, in source order                       *)

alltitles ==
    ("Attribution" :> <<<<0, JStr(<<"a", "t", "t", "r", "i", "b", "u", "t", "i", "o", "n">>)>>>>) @@
    ("CUDA Python" :> <<<<2, JNull>>>>) @@
    ("CUDA Python Release notes" :> <<<<4, JNull>>>>) @@
    ("Code of Conduct" :> <<<<0, JNull>>>>) @@
    ("Contents:" :> <<<<2, JNull>>>>) @@
    ("Contributing" :> <<<<1, JNull>>>>) @@
    ("Enforcement" :> <<<<0, JStr(<<"e", "n", "f", "o", "r", "c", "e", "m", "e", "n", "t">>)>>>>) @@
    ("Hightlights" :> <<<<4, JStr(<<"h", "i", "g", "h", "t", "l", "i", "g", "h", "t", "s">>)>>>>) @@
    ("Included components" :> <<<<4, JStr(<<"i", "n", "c", "l", "u", "d", "e", "d", "-", "c", "o", "m", "p", "o", "n", "e", "n", "t", "s">>)>>>>) @@
    ("Our Pledge" :> <<<<0, JStr(<<"o", "u", "r", "-", "p", "l", "e", "d", "g", "e">>)>>>>) @@
    ("Our Responsibilities" :> <<<<0, JStr(<<"o", "u", "r", "-", "r", "e", "s", "p", "o", "n", "s", "i", "b", "i", "l", "i", "t", "i", "e", "s">>)>>>>) @@
    ("Our Standards" :> <<<<0, JStr(<<"o", "u", "r", "-", "s", "t", "a", "n", "d", "a", "r", "d", "s">>)>>>>) @@
    ("Overview" :> <<<<0, JStr(<<"o", "v", "e", "r", "v", "i", "e", "w">>)>>>>) @@
    ("Release Notes" :> <<<<3, JNull>>>>) @@
    ("Scope" :> <<<<0, JStr(<<"s", "c", "o", "p", "e">>)>>>>)

\* variant: document names listed in another order than the file names
docnames_Reordered ==
    << <<"c", "o", "n", "d", "u", "c", "t">>,
       <<"i", "n", "d", "e", "x">>,
       <<"c", "o", "n", "t", "r", "i", "b", "u", "t", "e">>,
       <<"r", "e", "l", "e", "a", "s", "e">>,
       <<"r", "e", "l", "e", "a", "s", "e", "/", "1", "2", ".", "6", ".", "1", "-", "n", "o", "t", "e", "s">> >>

docnames ==
    << <<"c", "o", "n", "d", "u", "c", "t">>,
       <<"c", "o", "n", "t", "r", "i", "b", "u", "t", "e">>,
       <<"i", "n", "d", "e", "x">>,
       <<"r", "e", "l", "e", "a", "s", "e">>,
       <<"r", "e", "l", "e", "a", "s", "e", "/", "1", "2", ".", "6", ".", "1", "-", "n", "o", "t", "e", "s">> >>

envversion ==
    ("sphinx" :> 64) @@
    ("sphinx.domains.c" :> 3) @@
    ("sphinx.domains.changeset" :> 1) @@
    ("sphinx.domains.citation" :> 1) @@
    ("sphinx.domains.cpp" :> 9) @@
    ("sphinx.domains.index" :> 1) @@
    ("sphinx.domains.javascript" :> 3) @@
    ("sphinx.domains.math" :> 2) @@
    ("sphinx.domains.python" :> 4) @@
    ("sphinx.domains.rst" :> 2) @@
    ("sphinx.domains.std" :> 2)

\* variant: the last source file dropped from the list
filenames_Truncated ==
    << <<"c", "o", "n", "d", "u", "c", "t", ".", "m", "d">>,
       <<"c", "o", "n", "t", "r", "i", "b", "u", "t", "e", ".", "m", "d">>,
       <<"i", "n", "d", "e", "x", ".", "r", "s", "t">>,
       <<"r", "e", "l", "e", "a", "s", "e", ".", "m", "d">> >>

filenames ==
    << <<"c", "o", "n", "d", "u", "c", "t", ".", "m", "d">>,
       <<"c", "o", "n", "t", "r", "i", "b", "u", "t", "e", ".", "m", "d">>,
       <<"i", "n", "d", "e", "x", ".", "r", "s", "t">>,
       <<"r", "e", "l", "e", "a", "s", "e", ".", "m", "d">>,
       <<"r", "e", "l", "e", "a", "s", "e", "/", "1", "2", ".", "6", ".", "1", "-", "n", "o", "t", "e", "s", ".", "m", "d">> >>

indexentries ==
    <<>>

objects ==
    <<>>

objnames ==
    <<>>

objtypes ==
    <<>>

terms ==
    ("" :> JArr(<<0, 2>>)) @@
    ("1" :> JArr(<<0, 2, 3, 4>>)) @@
    ("12" :> JArr(<<2, 3, 4>>)) @@
    ("2024" :> JNum(4)) @@
    ("4" :> JNum(0)) @@
    ("6" :> JArr(<<2, 3, 4>>)) @@
    ("7" :> JNum(4)) @@
    ("75" :> JNum(4)) @@
    ("90" :> JNum(4)) @@
    ("At" :> JNum(1)) @@
    ("Being" :> JNum(0)) @@
    ("For" :> JArr(<<0, 2>>)) @@
    ("If" :> JNum(1)) @@
    ("In" :> JNum(0)) @@
    ("It" :> JNum(2)) @@
    ("The" :> JArr(<<0, 1>>)) @@
    ("about" :> JNum(0)) @@
    ("abus" :> JNum(0)) @@
    ("accept" :> JArr(<<0, 1>>)) @@
    ("access" :> JNum(2)) @@
    ("account" :> JNum(0)) @@
    ("act" :> JNum(0)) @@
    ("action" :> JNum(0)) @@
    ("adapt" :> JNum(0)) @@
    ("address" :> JNum(0)) @@
    ("advanc" :> JNum(0)) @@
    ("ag" :> JNum(0)) @@
    ("algorithm" :> JNum(2)) @@
    ("align" :> JNum(0)) @@
    ("all" :> JArr(<<0, 2>>)) @@
    ("an" :> JArr(<<0, 1, 2>>)) @@
    ("ani" :> JNum(0)) @@
    ("answer" :> JNum(0)) @@
    ("api" :> JNum(2)) @@
    ("appear" :> JNum(0)) @@
    ("appli" :> JNum(0)) @@
    ("appoint" :> JNum(0)) @@
    ("appropri" :> JNum(0)) @@
    ("ar" :> JNum(0)) @@
    ("attack" :> JNum(0)) @@
    ("attent" :> JArr(<<0, 1>>)) @@
    ("attribut" :> JNum(2)) @@
    ("avail" :> JArr(<<0, 2>>)) @@
    ("ban" :> JNum(0)) @@
    ("base" :> JNum(1)) @@
    ("behavior" :> JNum(0)) @@
    ("believ" :> JNum(1)) @@
    ("best" :> JNum(0)) @@
    ("bind" :> JArr(<<2, 4>>)) @@
    ("bodi" :> JNum(0)) @@
    ("both" :> JNum(0)) @@
    ("bring" :> JNum(2)) @@
    ("bug" :> JNum(1)) @@
    ("c" :> JNum(2)) @@
    ("categori" :> JNum(1)) @@
    ("chang" :> JNum(1)) @@
    ("characterist" :> JNum(0)) @@
    ("circumst" :> JNum(0)) @@
    ("clarifi" :> JNum(0)) @@
    ("code" :> JArr(<<1, 2>>)) @@
    ("com" :> JNum(0)) @@
    ("comment" :> JArr(<<0, 1>>)) @@
    ("commit" :> JNum(0)) @@
    ("common" :> JNum(0)) @@
    ("commun" :> JNum(0)) @@
    ("complaint" :> JNum(0)) @@
    ("compon" :> JArr(<<2, 3>>)) @@
    ("conduct" :> JNum(2)) @@
    ("confidenti" :> JNum(0)) @@
    ("consid" :> JNum(0)) @@
    ("consist" :> JNum(2)) @@
    ("construct" :> JNum(0)) @@
    ("contact" :> JNum(0)) @@
    ("continu" :> JNum(2)) @@
    ("contribut" :> JArr(<<0, 2>>)) @@
    ("contributor" :> JNum(0)) @@
    ("cooper" :> JNum(2)) @@
    ("core" :> JNum(2)) @@
    ("correct" :> JNum(0)) @@
    ("could" :> JNum(0)) @@
    ("coven" :> JNum(0)) @@
    ("creat" :> JNum(0)) @@
    ("critic" :> JNum(0)) @@
    ("cub" :> JNum(2)) @@
    ("cuda" :> JArr(<<0, 1>>)) @@
    ("current" :> JNum(2)) @@
    ("deem" :> JNum(0)) @@
    ("defin" :> JNum(0)) @@
    ("derogatori" :> JNum(0)) @@
    ("describ" :> JNum(1)) @@
    ("detail" :> JArr(<<0, 2>>)) @@
    ("determin" :> JNum(0)) @@
    ("differ" :> JNum(0)) @@
    ("disabl" :> JNum(0)) @@
    ("do" :> JArr(<<0, 1>>)) @@
    ("document" :> JArr(<<1, 2>>)) @@
    ("e" :> JNum(0)) @@
    ("econom" :> JNum(0)) @@
    ("edit" :> JNum(0)) @@
    ("educ" :> JNum(0)) @@
    ("electron" :> JNum(0)) @@
    ("empathi" :> JNum(0)) @@
    ("encount" :> JNum(1)) @@
    ("enforc" :> JNum(2)) @@
    ("environ" :> JNum(0)) @@
    ("ethnic" :> JNum(0)) @@
    ("evalu" :> JNum(1)) @@
    ("event" :> JNum(0)) @@
    ("everyon" :> JNum(0)) @@
    ("exampl" :> JNum(0)) @@
    ("exist" :> JNum(2)) @@
    ("expect" :> JNum(0)) @@
    ("experi" :> JNum(0)) @@
    ("explicit" :> JNum(0)) @@
    ("exposur" :> JNum(2)) @@
    ("express" :> JNum(0)) @@
    ("face" :> JNum(0)) @@
    ("fair" :> JNum(0)) @@
    ("faith" :> JNum(0)) @@
    ("fall" :> JNum(1)) @@
    ("faq" :> JNum(0)) @@
    ("featur" :> JNum(1)) @@
    ("file" :> JNum(1)) @@
    ("fix" :> JNum(1)) @@
    ("focus" :> JNum(0)) @@
    ("follow" :> JNum(0)) @@
    ("foster" :> JNum(0)) @@
    ("free" :> JNum(0)) @@
    ("from" :> JArr(<<0, 2>>)) @@
    ("function" :> JNum(2)) @@
    ("further" :> JArr(<<0, 2>>)) @@
    ("gender" :> JNum(0)) @@
    ("good" :> JNum(0)) @@
    ("gracefulli" :> JNum(0)) @@
    ("guid" :> JNum(2)) @@
    ("harass" :> JNum(0)) @@
    ("harm" :> JNum(0)) @@
    ("have" :> JNum(0)) @@
    ("hightlight" :> JNum(3)) @@
    ("home" :> JNum(2)) @@
    ("html" :> JNum(0)) @@
    ("http" :> JNum(0)) @@
    ("i" :> JArr(<<0, 2>>)) @@
    ("ident" :> JNum(0)) @@
    ("imageri" :> JNum(0)) @@
    ("implement" :> JNum(1)) @@
    ("improv" :> JNum(2)) @@
    ("inappropri" :> JNum(0)) @@
    ("incid" :> JNum(0)) @@
    ("includ" :> JArr(<<0, 3>>)) @@
    ("inclus" :> JNum(0)) @@
    ("individu" :> JNum(0)) @@
    ("inform" :> JNum(0)) @@
    ("instal" :> JNum(2)) @@
    ("instanc" :> JNum(0)) @@
    ("insult" :> JNum(0)) @@
    ("interest" :> JArr(<<0, 1>>)) @@
    ("intern" :> JNum(4)) @@
    ("investig" :> JNum(0)) @@
    ("issu" :> JArr(<<0, 1, 4>>)) @@
    ("its" :> JNum(0)) @@
    ("languag" :> JNum(0)) @@
    ("layout" :> JNum(4)) @@
    ("leadership" :> JNum(0)) @@
    ("level" :> JArr(<<0, 2>>)) @@
    ("librari" :> JNum(2)) @@
    ("low" :> JNum(2)) @@
    ("mai" :> JNum(0)) @@
    ("mail" :> JNum(0)) @@
    ("maintain" :> JNum(0)) @@
    ("make" :> JNum(0)) @@
    ("math" :> JNum(2)) @@
    ("media" :> JNum(0)) @@
    ("member" :> JNum(0)) @@
    ("metapackag" :> JNum(4)) @@
    ("multipl" :> JNum(2)) @@
    ("nation" :> JNum(0)) @@
    ("necessari" :> JNum(0)) @@
    ("need" :> JNum(1)) @@
    ("new" :> JNum(2)) @@
    ("note" :> JNum(2)) @@
    ("notifi" :> JNum(1)) @@
    ("nvidia" :> JArr(<<0, 1, 2>>)) @@
    ("nvmath" :> JNum(2)) @@
    ("oblig" :> JNum(0)) @@
    ("oct" :> JNum(4)) @@
    ("offens" :> JNum(0)) @@
    ("offici" :> JNum(0)) @@
    ("offlin" :> JNum(0)) @@
    ("onlin" :> JNum(0)) @@
    ("open" :> JNum(0)) @@
    ("org" :> JNum(0)) @@
    ("orient" :> JNum(0)) @@
    ("other" :> JArr(<<0, 2>>)) @@
    ("otherwis" :> JNum(0)) @@
    ("our" :> JNum(2)) @@
    ("overhaul" :> JNum(2)) @@
    ("overview" :> JNum(2)) @@
    ("packag" :> JNum(2)) @@
    ("parallel" :> JNum(2)) @@
    ("particip" :> JNum(0)) @@
    ("perman" :> JNum(0)) @@
    ("permiss" :> JNum(0)) @@
    ("person" :> JNum(0)) @@
    ("physic" :> JNum(0)) @@
    ("platform" :> JNum(2)) @@
    ("pleas" :> JNum(2)) @@
    ("pledg" :> JNum(2)) @@
    ("polici" :> JNum(0)) @@
    ("polit" :> JNum(0)) @@
    ("posit" :> JNum(0)) @@
    ("post" :> JNum(0)) @@
    ("prepar" :> JNum(4)) @@
    ("previous" :> JNum(2)) @@
    ("prioriti" :> JNum(1)) @@
    ("privat" :> JNum(0)) @@
    ("profession" :> JNum(0)) @@
    ("project" :> JNum(0)) @@
    ("public" :> JNum(0)) @@
    ("publish" :> JNum(0)) @@
    ("python" :> JArr(<<0, 1>>)) @@
    ("question" :> JNum(0)) @@
    ("race" :> JNum(0)) @@
    ("reason" :> JNum(0)) @@
    ("refactor" :> JNum(4)) @@
    ("refer" :> JNum(2)) @@
    ("regard" :> JNum(0)) @@
    ("regardless" :> JNum(0)) @@
    ("reject" :> JNum(0)) @@
    ("releas" :> JArr(<<1, 2>>)) @@
    ("religion" :> JNum(0)) @@
    ("remov" :> JNum(0)) @@
    ("repercuss" :> JNum(0)) @@
    ("report" :> JArr(<<0, 1>>)) @@
    ("repres" :> JNum(0)) @@
    ("represent" :> JNum(0)) @@
    ("request" :> JNum(1)) @@
    ("respect" :> JNum(0)) @@
    ("respons" :> JNum(2)) @@
    ("result" :> JNum(0)) @@
    ("review" :> JNum(0)) @@
    ("right" :> JNum(0)) @@
    ("runtim" :> JNum(2)) @@
    ("schedul" :> JNum(1)) @@
    ("scope" :> JNum(2)) @@
    ("see" :> JArr(<<0, 1>>)) @@
    ("separ" :> JNum(0)) @@
    ("set" :> JNum(0)) @@
    ("sex" :> JNum(0)) @@
    ("sexual" :> JNum(0)) @@
    ("show" :> JNum(0)) @@
    ("size" :> JNum(0)) @@
    ("social" :> JNum(0)) @@
    ("socio" :> JNum(0)) @@
    ("space" :> JNum(0)) @@
    ("specif" :> JNum(0)) @@
    ("standard" :> JNum(2)) @@
    ("statu" :> JNum(0)) @@
    ("take" :> JNum(0)) @@
    ("team" :> JArr(<<0, 1>>)) @@
    ("temporari" :> JNum(0)) @@
    ("temporarili" :> JNum(0)) @@
    ("thank" :> JNum(1)) @@
    ("thei" :> JNum(0)) @@
    ("them" :> JNum(1)) @@
    ("thi" :> JArr(<<0, 1>>)) @@
    ("threaten" :> JNum(0)) @@
    ("thrust" :> JNum(2)) @@
    ("time" :> JNum(1)) @@
    ("toward" :> JNum(0)) @@
    ("triag" :> JNum(1)) @@
    ("troll" :> JNum(0)) @@
    ("two" :> JNum(1)) @@
    ("type" :> JNum(1)) @@
    ("unaccept" :> JNum(0)) @@
    ("undergo" :> JNum(2)) @@
    ("unwelcom" :> JNum(0)) @@
    ("up" :> JNum(2)) @@
    ("us" :> JNum(0)) @@
    ("version" :> JNum(0)) @@
    ("via" :> JNum(0)) @@
    ("viewpoint" :> JNum(0)) @@
    ("want" :> JNum(1)) @@
    ("we" :> JArr(<<0, 1>>)) @@
    ("welcom" :> JNum(0)) @@
    ("what" :> JArr(<<0, 1>>)) @@
    ("when" :> JNum(0)) @@
    ("which" :> JNum(0)) @@
    ("who" :> JNum(0)) @@
    ("wiki" :> JNum(0)) @@
    ("within" :> JNum(0)) @@
    ("without" :> JNum(0)) @@
    ("www" :> JNum(0)) @@
    ("you" :> JNum(1)) @@
    ("your" :> JNum(1))

titles ==
    << "Code of Conduct",
       "Contributing",
       "CUDA Python",
       "Release Notes",
       "CUDA Python Release notes" >>

titleterms ==
    ("attribut" :> JNum(0)) @@
    ("code" :> JNum(0)) @@
    ("compon" :> JNum(4)) @@
    ("conduct" :> JNum(0)) @@
    ("content" :> JNum(2)) @@
    ("contribut" :> JNum(1)) @@
    ("cuda" :> JArr(<<2, 4>>)) @@
    ("enforc" :> JNum(0)) @@
    ("hightlight" :> JNum(4)) @@
    ("includ" :> JNum(4)) @@
    ("note" :> JArr(<<3, 4>>)) @@
    ("our" :> JNum(0)) @@
    ("overview" :> JNum(0)) @@
    ("pledg" :> JNum(0)) @@
    ("python" :> JArr(<<2, 4>>)) @@
    ("releas" :> JArr(<<3, 4>>)) @@
    ("respons" :> JNum(0)) @@
    ("scope" :> JNum(0)) @@
    ("standard" :> JNum(0))

\* variant: a section title filed under a document number past the end of the list
INDEX_BadTitleDoc ==
    [ alltitles    |-> [alltitles EXCEPT !["Scope"] =
                          <<<<5, JStr(<<"s", "c", "o", "p", "e">>)>>>>],
      docnames     |-> docnames,
      envversion   |-> envversion,
      filenames    |-> filenames,
      indexentries |-> indexentries,
      objects      |-> objects,
      objnames     |-> objnames,
      objtypes     |-> objtypes,
      terms        |-> terms,
      titles       |-> titles,
      titleterms   |-> titleterms ]

\* variant: the documents of a title term listed out of order
INDEX_UnsortedTitleTerm ==
    [ alltitles    |-> alltitles,
      docnames     |-> docnames,
      envversion   |-> envversion,
      filenames    |-> filenames,
      indexentries |-> indexentries,
      objects      |-> objects,
      objnames     |-> objnames,
      objtypes     |-> objtypes,
      terms        |-> terms,
      titles       |-> titles,
      titleterms   |-> [titleterms EXCEPT !["cuda"] = JArr(<<4, 2>>)] ]

\* variant: a title word of document 1 also indexed as a title term
INDEX_TitleWordInBody ==
    [ alltitles    |-> alltitles,
      docnames     |-> docnames,
      envversion   |-> envversion,
      filenames    |-> filenames,
      indexentries |-> indexentries,
      objects      |-> objects,
      objnames     |-> objnames,
      objtypes     |-> objtypes,
      terms        |-> terms,
      titles       |-> titles,
      titleterms   |-> [titleterms EXCEPT !["code"] = JArr(<<0, 1>>)] ]

\* variant: a document's own title filed with an anchor instead of null
INDEX_TitleWithAnchor ==
    [ alltitles    |-> [alltitles EXCEPT !["Release Notes"] =
                          <<<<3, JStr(<<"r", "e", "l", "e", "a", "s", "e", "-", "n", "o", "t", "e", "s">>)>>>>],
      docnames     |-> docnames,
      envversion   |-> envversion,
      filenames    |-> filenames,
      indexentries |-> indexentries,
      objects      |-> objects,
      objnames     |-> objnames,
      objtypes     |-> objtypes,
      terms        |-> terms,
      titles       |-> titles,
      titleterms   |-> titleterms ]

\* variant: the only title term of document 1 left out
INDEX_MissingTitleTerm ==
    [ alltitles    |-> alltitles,
      docnames     |-> docnames,
      envversion   |-> envversion,
      filenames    |-> filenames,
      indexentries |-> indexentries,
      objects      |-> objects,
      objnames     |-> objnames,
      objtypes     |-> objtypes,
      terms        |-> terms,
      titles       |-> titles,
      titleterms   |-> [k \in DOMAIN titleterms \ {"contribut"} |-> titleterms[k]] ]

(* The argument of Search.setIndex                                         *)
INDEX ==
    [ alltitles    |-> alltitles,
      docnames     |-> docnames,
      envversion   |-> envversion,
      filenames    |-> filenames,
      indexentries |-> indexentries,
      objects      |-> objects,
      objnames     |-> objnames,
      objtypes     |-> objtypes,
      terms        |-> terms,
      titles       |-> titles,
      titleterms   |-> titleterms ]

-----------------------------------------------------------------------------
(* The consumer's reading of the index                                     *)

\* a value of terms / titleterms as a list of document numbers
Files(v) == IF v.t = "num" THEN <<v.n>> ELSE IF v.t = "arr" THEN v.a ELSE <<>>

\* list[d] for a 0-based d, undefined when d is out of range
At(list, d) == IF d \in 0 .. (Len(list) - 1) THEN JStr(list[d + 1]) ELSE JUndefined

Lookup(m, w) == IF w \in DOMAIN m THEN Files(m[w]) ELSE <<>>

Hit(o, d, kind, anchor) ==
    [ doc    |-> d,
      file   |-> At(o.filenames, d),
      title  |-> At(o.titles, d),
      anchor |-> anchor,
      kind   |-> kind ]

WordHits(o, w) ==
    LET body  == Lookup(o.terms, w)
        title == Lookup(o.titleterms, w)
    IN  [i \in 1 .. Len(body)  |-> Hit(o, body[i], "body", JNull)] \o
        [i \in 1 .. Len(title) |-> Hit(o, title[i], "title", JNull)]

TitleHits(o, t) ==
    LET pairs == o.alltitles[t]
    IN  [i \in 1 .. Len(pairs) |-> Hit(o, pairs[i][1], "section", pairs[i][2])]

Words(o) == DOMAIN o.terms \cup DOMAIN o.titleterms

NoQuery == [kind |-> "none", text |-> ""]

-----------------------------------------------------------------------------
(* State machine                                                           *)

Init ==
    /\ pc = "script"
    /\ index = JNull
    /\ query = NoQuery
    /\ hits = <<>>

\* variant: the hand-over is not guarded and can run again with a reduced object
setIndex_Repeatable ==
    /\ index' = IF pc = "script" THEN JObj(INDEX)
                ELSE JObj([INDEX EXCEPT !.terms = <<>>])
    /\ pc' = "done"
    /\ UNCHANGED <<query, hits>>

\* the one statement of searchindex.js
setIndex ==
    /\ pc = "script"
    /\ index' = JObj(INDEX)
    /\ pc' = "done"
    /\ UNCHANGED <<query, hits>>

\* a search for one stemmed word: body terms and title terms
WordQuery ==
    /\ index.t = "obj"
    /\ \E w \in Words(index.o) :
          /\ query' = [kind |-> "word", text |-> w]
          /\ hits' = WordHits(index.o, w)
    /\ UNCHANGED <<pc, index>>

\* a search for one section title
TitleQuery ==
    /\ index.t = "obj"
    /\ \E t \in DOMAIN index.o.alltitles :
          /\ query' = [kind |-> "title", text |-> t]
          /\ hits' = TitleHits(index.o, t)
    /\ UNCHANGED <<pc, index>>

Next ==
    \/ setIndex
    \/ WordQuery
    \/ TitleQuery

Spec == Init /\ [][Next]_vars

-----------------------------------------------------------------------------
(* Properties                                                              *)

Loaded == index.t = "obj"

\* the document numbers listed under one value of terms / titleterms
DocSet(v) == {Files(v)[i] : i \in 1 .. Len(Files(v))}

DocNumbers(o) == 0 .. (Len(o.filenames) - 1)

TermMaps(o) == {o.terms, o.titleterms}

IsPrefix(p, s) == Len(p) <= Len(s) /\ SubSeq(s, 1, Len(p)) = p

\* a source suffix: a dot followed by one or more characters of an extension
IsSourceSuffix(s) ==
    /\ Len(s) >= 2
    /\ s[1] = "."
    /\ \A j \in 2 .. Len(s) : s[j] \notin {".", "/"}

SlugChars ==
    {"a", "b", "c", "d", "e", "f", "g", "h", "i", "j", "k", "l", "m",
     "n", "o", "p", "q", "r", "s", "t", "u", "v", "w", "x", "y", "z",
     "0", "1", "2", "3", "4", "5", "6", "7", "8", "9", "-", "_"}

\* an anchor identifier: a non-empty string of identifier characters
IsAnchorId(a) ==
    /\ a.t = "str"
    /\ Len(a.s) >= 1
    /\ \A j \in 1 .. Len(a.s) : a.s[j] \in SlugChars

StrictlyAscending(a) == \A i \in 1 .. (Len(a) - 1) : a[i] < a[i + 1]

\* C1: every document number listed under a term of `terms' or `titleterms'
\* is a valid index of `filenames' (0 <= d < length), and every hit of a word
\* search resolves to an existing file.
C1_TermDocsAreFileIndices ==
    Loaded =>
        /\ \A m \in TermMaps(index.o) : \A k \in DOMAIN m :
               \A d \in DocSet(m[k]) : d \in DocNumbers(index.o)
        /\ query.kind = "word" =>
               \A i \in 1 .. Len(hits) : hits[i].file.t = "str"

C1_Witness ==
    /\ Loaded
    /\ query = [kind |-> "word", text |-> "1"]
    /\ Len(hits) = 4
    /\ hits[4].doc = 4
    /\ hits[4].file = JStr(index.o.filenames[5])

\* C2: docnames, filenames and titles have the same length, filenames[i] is
\* docnames[i] followed by a source suffix, and every hit resolves to the one
\* file name and the one title at its document number.
C2_ParallelLists ==
    Loaded =>
        LET o == index.o IN
        /\ Len(o.docnames) = Len(o.filenames)
        /\ Len(o.filenames) = Len(o.titles)
        /\ \A i \in 1 .. Len(o.filenames) :
               /\ i \in DOMAIN o.docnames
               /\ IsPrefix(o.docnames[i], o.filenames[i])
               /\ IsSourceSuffix(SubSeq(o.filenames[i], Len(o.docnames[i]) + 1,
                                        Len(o.filenames[i])))
        /\ \A i \in 1 .. Len(hits) :
               /\ hits[i].file.t = "str"
               /\ hits[i].title.t = "str"
               /\ hits[i].file.s = o.filenames[hits[i].doc + 1]
               /\ hits[i].title.s = o.titles[hits[i].doc + 1]
               /\ IsPrefix(o.docnames[hits[i].doc + 1], hits[i].file.s)

C2_Witness ==
    /\ Loaded
    /\ query = [kind |-> "word", text |-> "nvidia"]
    /\ Len(hits) = 3
    /\ hits[3].file.t = "str"
    /\ hits[3].file.s = index.o.docnames[3] \o <<".", "r", "s", "t">>
    /\ hits[3].title = JStr("CUDA Python")

\* C3 as stated: every pair [document, anchor] under a section title has a
\* valid document number and an anchor that is an anchor identifier.
C3_Original ==
    Loaded =>
        \A t \in DOMAIN index.o.alltitles :
            \A i \in 1 .. Len(index.o.alltitles[t]) :
                /\ index.o.alltitles[t][i][1] \in DocNumbers(index.o)
                /\ IsAnchorId(index.o.alltitles[t][i][2])

\* C3 (amended): every pair [document, anchor] under a section title has a
\* valid document number and an anchor that is either null (the title of the
\* document itself) or an anchor identifier; every hit of a title search
\* resolves to an existing file.
C3_TitleIndex ==
    Loaded =>
        /\ \A t \in DOMAIN index.o.alltitles :
               \A i \in 1 .. Len(index.o.alltitles[t]) :
                   /\ index.o.alltitles[t][i][1] \in DocNumbers(index.o)
                   /\ \/ index.o.alltitles[t][i][2].t = "null"
                      \/ IsAnchorId(index.o.alltitles[t][i][2])
        /\ query.kind = "title" =>
               \A i \in 1 .. Len(hits) : hits[i].file.t = "str"

C3_Witness ==
    /\ Loaded
    /\ query = [kind |-> "title", text |-> "Included components"]
    /\ Len(hits) = 1
    /\ hits[1].doc = 4
    /\ IsAnchorId(hits[1].anchor)
    /\ hits[1].file.t = "str"

\* C4: every value of `terms' and `titleterms' is one document number or a
\* list of document numbers in strictly ascending order, every value of
\* `alltitles' is a non-empty list of [document, anchor] pairs, and within one
\* document no two section titles share the same non-null anchor.
C4_Shape ==
    Loaded =>
        LET o == index.o IN
        /\ \A m \in TermMaps(o) : \A k \in DOMAIN m :
               \/ m[k].t = "num" /\ m[k].n \in Nat
               \/ /\ m[k].t = "arr"
                  /\ \A i \in 1 .. Len(m[k].a) : m[k].a[i] \in Nat
                  /\ StrictlyAscending(m[k].a)
        /\ \A t \in DOMAIN o.alltitles :
               /\ Len(o.alltitles[t]) >= 1
               /\ \A i \in 1 .. Len(o.alltitles[t]) :
                      /\ Len(o.alltitles[t][i]) = 2
                      /\ o.alltitles[t][i][1] \in Nat
                      /\ o.alltitles[t][i][2].t \in {"null", "str"}
        /\ \A t1, t2 \in DOMAIN o.alltitles :
               \A i \in 1 .. Len(o.alltitles[t1]) :
                   \A j \in 1 .. Len(o.alltitles[t2]) :
                       ( /\ t1 # t2
                         /\ o.alltitles[t1][i][1] = o.alltitles[t2][j][1]
                         /\ o.alltitles[t1][i][2].t = "str"
                         /\ o.alltitles[t2][j][2].t = "str" )
                       => o.alltitles[t1][i][2].s # o.alltitles[t2][j][2].s

C4_Witness ==
    /\ Loaded
    /\ query = [kind |-> "word", text |-> "issu"]
    /\ index.o.terms["issu"] = JArr(<<0, 1, 4>>)
    /\ index.o.terms["2024"] = JNum(4)
    /\ Len(index.o.alltitles["Our Pledge"]) = 1
    /\ Len(hits) = 3

C6_BodyTitleDisjoint ==
    Loaded =>
        /\ \A s \in DOMAIN index.o.terms \cap DOMAIN index.o.titleterms :
               DocSet(index.o.terms[s]) \cap DocSet(index.o.titleterms[s]) = {}
        /\ query.kind = "word" =>
               \A i, j \in 1 .. Len(hits) : hits[i].doc = hits[j].doc => i = j

C6_Witness ==
    /\ Loaded
    /\ query = [kind |-> "word", text |-> "cuda"]
    /\ Len(hits) = 4
    /\ {hits[i].kind : i \in 1 .. Len(hits)} = {"body", "title"}

\* C7: for every position i of the document list, alltitles[titles[i]]
\* contains the pair [i, null].
C7_OwnTitleIndexed ==
    Loaded =>
        \A i \in 1 .. Len(index.o.filenames) :
            /\ i \in DOMAIN index.o.titles
            /\ index.o.titles[i] \in DOMAIN index.o.alltitles
            /\ \E j \in 1 .. Len(index.o.alltitles[index.o.titles[i]]) :
                   /\ index.o.alltitles[index.o.titles[i]][j][1] = i - 1
                   /\ index.o.alltitles[index.o.titles[i]][j][2].t = "null"

C7_Witness ==
    /\ Loaded
    /\ query = [kind |-> "title", text |-> "Release Notes"]
    /\ Len(hits) = 1
    /\ hits[1].doc = 3
    /\ hits[1].anchor = JNull
    /\ hits[1].title = JStr("Release Notes")

\* C8: every position i of the document list appears under at least one key
\* of `terms', under at least one key of `titleterms', and in at least one
\* pair of `alltitles'.
C8_EveryDocumentIndexed ==
    Loaded =>
        \A d \in DocNumbers(index.o) :
            /\ \E k \in DOMAIN index.o.terms : d \in DocSet(index.o.terms[k])
            /\ \E k \in DOMAIN index.o.titleterms :
                   d \in DocSet(index.o.titleterms[k])
            /\ \E t \in DOMAIN index.o.alltitles :
                   \E i \in 1 .. Len(index.o.alltitles[t]) :
                       index.o.alltitles[t][i][1] = d

C8_Witness ==
    /\ Loaded
    /\ query = [kind |-> "word", text |-> "contribut"]
    /\ Len(hits) = 3
    /\ hits[3].doc = 1
    /\ hits[3].kind = "title"

=============================================================================
